---- MODULE Spec2Model ----
(***************************************************************************)
(* Model of hybrid_parallel_sim.py: four Device threads started by         *)
(* HybridTrainer.run, each running run_1f1b_schedule (the forward/backward *)
(* instruction sequence of its pipeline stage, then Device.all_reduce),    *)
(* and the main thread that joins them and calls generate_timeline.        *)
(*                                                                         *)
(* time.sleep inside log_event is the only point at which a thread waits,  *)
(* and the threads share no data, so a step of a device thread runs from   *)
(* the return of one time.sleep to the call of the next one: it completes  *)
(* the forward/backward the thread was in (the update of Device.memory)    *)
(* and starts the next operation (the append of its event to the log).     *)
(* A thread at a position of SchedulePcs or at "all_reduce" is inside the  *)
(* log_event of that position: the event is in the log, the operation has  *)
(* not completed.  Durations are in hundredths of a second.                *)
(***************************************************************************)
EXTENDS Integers, Sequences, FiniteSets, TLC

VARIABLES devices, micro_batches, main_pc, main_i, tpc, loop_i, ar_s,
          log, memory, now, timeline

vars == <<devices, micro_batches, main_pc, main_i, tpc, loop_i, ar_s,
          log, memory, now, timeline>>

\* range(4) in HybridTrainer.run
Ranks == 0 .. 3

\* self.micro_batches = 8
MicroBatches == 8

\* durations passed to log_event, in 1/100 s
forward_duration == 5
backward_duration == 8
step_duration == 2

\* self.memory += 10 / self.memory -= 10
activation_memory == 10

\* Device(rank, stage, world_size, pipeline_depth)
Device(rank, stage, world_size, pipeline_depth) ==
  [rank |-> rank, stage |-> stage, world_size |-> world_size,
   pipeline_depth |-> pipeline_depth]

\* self.devices of HybridTrainer.__init__
TrainerDevices ==
  [r \in Ranks |-> CASE r = 0 -> Device(0, 0, 4, 2)
                     [] r = 1 -> Device(1, 1, 4, 2)
                     [] r = 2 -> Device(2, 0, 4, 2)
                     [] r = 3 -> Device(3, 1, 4, 2)]

F(i) == [kind |-> "Forward", mb |-> i]
B(i) == [kind |-> "Backward", mb |-> i]

\* stage 0 branch, loop body: if i < micro_batches: device.forward(i)
Stage0LoopForward(i) == F(i)

\* stage 0 branch, loop body: if i-1 >= 0: device.backward(i-1)
Stage0LoopBackward(i) == B(i - 1)

\* the cooldown with the index one too far: device.backward(micro_batches)
Stage0CooldownOffByOne(M) == B(M)

\* stage 0 branch, cooldown: device.backward(micro_batches - 1)
Stage0Cooldown(M) == B(M - 1)

\* stage 1 branch, loop body: device.forward(i)
Stage1LoopForward(i) == F(i)

\* the stage 1 loop body with the backward index of the stage 0 loop
Stage1LoopBackwardLagging(i) == B(i - 1)

\* stage 1 branch, loop body: device.backward(i)
Stage1LoopBackward(i) == B(i)

\* the positions of run_1f1b_schedule at which a forward/backward is called
SchedulePcs ==
  {"s0_f0", "s0_f1", "s0_b0", "s0_f2", "s0_b1", "s0_loop_f", "s0_loop_b",
   "s0_cooldown", "s1_f0", "s1_b0", "s1_f1", "s1_b1", "s1_loop_f",
   "s1_loop_b"}

\* the call made at position pc, with loop variable i
CallAt(pc, i, M) ==
  CASE pc = "s0_f0" -> F(0)
    [] pc = "s0_f1" -> F(1)
    [] pc = "s0_b0" -> B(0)
    [] pc = "s0_f2" -> F(2)
    [] pc = "s0_b1" -> B(1)
    [] pc = "s0_loop_f" -> Stage0LoopForward(i)
    [] pc = "s0_loop_b" -> Stage0LoopBackward(i)
    [] pc = "s0_cooldown" -> Stage0Cooldown(M)
    [] pc = "s1_f0" -> F(0)
    [] pc = "s1_b0" -> B(0)
    [] pc = "s1_f1" -> F(1)
    [] pc = "s1_b1" -> B(1)
    [] pc = "s1_loop_f" -> Stage1LoopForward(i)
    [] pc = "s1_loop_b" -> Stage1LoopBackward(i)

\* for i in range(2, micro_batches): the position after the loop test for i;
\* in the loop body i >= 2, so both ifs of the stage 0 body are taken
LoopTest(body, exit, i, M) ==
  IF i < M THEN [pc |-> body, i |-> i] ELSE [pc |-> exit, i |-> i]

\* the position that follows the call at pc; after the last call of a
\* branch the thread calls device.all_reduce()
NextAt(pc, i, M) ==
  CASE pc = "s0_f0" -> [pc |-> "s0_f1", i |-> i]
    [] pc = "s0_f1" -> [pc |-> "s0_b0", i |-> i]
    [] pc = "s0_b0" -> [pc |-> "s0_f2", i |-> i]
    [] pc = "s0_f2" -> [pc |-> "s0_b1", i |-> i]
    [] pc = "s0_b1" -> LoopTest("s0_loop_f", "s0_cooldown", 2, M)
    [] pc = "s0_loop_f" -> [pc |-> "s0_loop_b", i |-> i]
    [] pc = "s0_loop_b" -> LoopTest("s0_loop_f", "s0_cooldown", i + 1, M)
    [] pc = "s0_cooldown" -> [pc |-> "all_reduce", i |-> i]
    [] pc = "s1_f0" -> [pc |-> "s1_b0", i |-> i]
    [] pc = "s1_b0" -> [pc |-> "s1_f1", i |-> i]
    [] pc = "s1_f1" -> [pc |-> "s1_b1", i |-> i]
    [] pc = "s1_b1" -> LoopTest("s1_loop_f", "all_reduce", 2, M)
    [] pc = "s1_loop_f" -> [pc |-> "s1_loop_b", i |-> i]
    [] pc = "s1_loop_b" -> LoopTest("s1_loop_f", "all_reduce", i + 1, M)

\* if device.stage == 0: ... elif device.stage == 1: ... (else straight to
\* device.all_reduce())
EntryPc(d) ==
  IF d.stage = 0 THEN "s0_f0"
  ELSE IF d.stage = 1 THEN "s1_f0"
  ELSE "all_reduce"

\* steps = 2 * (2 - 1) in Device.all_reduce: independent of the device
all_reduce_steps(d) == 2 * (2 - 1)

\* the dictionary appended by log_event
Event(rank, kind, id, start, duration) ==
  [rank |-> rank, kind |-> kind, id |-> id, start |-> start,
   duration |-> duration]

\* forward charging the activation twice
forward_memory_double(m) == m + 2 * activation_memory

\* self.memory += 10
forward_memory(m) == m + activation_memory

\* backward with the update of forward: self.memory += 10
backward_memory_grows(m) == m + activation_memory

\* self.memory -= 10
backward_memory(m) == m - activation_memory

----------------------------------------------------------------------------
\* generate_timeline: list.sort(key=start) is a stable merge sort

\* a merge that puts the elements of b in front of the elements of a with
\* an equal key: the sort is no longer stable
MergeRightFirst(a, b) ==
  LET posA(i) == i + Cardinality({j \in 1 .. Len(b) : b[j].start <= a[i].start})
      posB(j) == j + Cardinality({i \in 1 .. Len(a) : a[i].start < b[j].start})
  IN [p \in 1 .. Len(a) + Len(b) |->
        IF \E i \in 1 .. Len(a) : posA(i) = p
        THEN a[CHOOSE i \in 1 .. Len(a) : posA(i) = p]
        ELSE b[CHOOSE j \in 1 .. Len(b) : posB(j) = p]]

\* the merge of the sorted runs a and b: an element of a goes behind the
\* elements of b with a smaller key, an element of b behind the elements of
\* a with a smaller or equal key
MergeByStart(a, b) ==
  LET posA(i) == i + Cardinality({j \in 1 .. Len(b) : b[j].start < a[i].start})
      posB(j) == j + Cardinality({i \in 1 .. Len(a) : a[i].start <= b[j].start})
  IN [p \in 1 .. Len(a) + Len(b) |->
        IF \E i \in 1 .. Len(a) : posA(i) = p
        THEN a[CHOOSE i \in 1 .. Len(a) : posA(i) = p]
        ELSE b[CHOOSE j \in 1 .. Len(b) : posB(j) = p]]

\* the halves are sorted once each (bound as values) and then merged
RECURSIVE SortByStart(_)
SortByStart(s) ==
  IF Len(s) <= 1 THEN s
  ELSE LET h == Len(s) \div 2
       IN CHOOSE m \in {MergeByStart(a, b) :
                          a \in {SortByStart(SubSeq(s, 1, h))},
                          b \in {SortByStart(SubSeq(s, h + 1, Len(s)))}} :
            TRUE

RECURSIVE CollectFromShort(_, _)
CollectFromShort(r, logs) ==
  IF r >= 3 THEN << >> ELSE logs[r] \o CollectFromShort(r + 1, logs)

\* for d in self.devices: for e in d.log: all_events.append(e)
RECURSIVE CollectFrom(_, _)
CollectFrom(r, logs) ==
  IF r > 3 THEN << >> ELSE logs[r] \o CollectFrom(r + 1, logs)

all_events(logs) == CollectFrom(0, logs)

\* the reference time taken from the wrong end of the sorted list
T0Last(sorted) == sorted[Len(sorted)].start

\* t0 = all_events[0]['start'], after the sort
T0(sorted) == sorted[1].start

\* a line of the timeline: the event with t_rel = e['start'] - t0
Row(e, t0) ==
  [rank |-> e.rank, kind |-> e.kind, id |-> e.id, start |-> e.start,
   duration |-> e.duration, t_rel |-> e.start - t0]

\* if not all_events: return; otherwise one line per event of the sorted list
TimelineRows(sorted) ==
  IF sorted = << >> THEN << >>
  ELSE [k \in 1 .. Len(sorted) |-> Row(sorted[k], T0(sorted))]

----------------------------------------------------------------------------
Init ==
  /\ devices = TrainerDevices
  /\ micro_batches = MicroBatches
  /\ main_pc = "start"
  /\ main_i = 0
  /\ tpc = [r \in Ranks |-> "unstarted"]
  /\ loop_i = [r \in Ranks |-> 0]
  /\ ar_s = [r \in Ranks |-> 0]
  /\ log = [r \in Ranks |-> << >>]
  /\ memory = [r \in Ranks |-> 0]
  /\ now = 0
  /\ timeline = << >>

\* run: t = Thread(target=run_1f1b_schedule, args=(i,)); t.start()
thread_start ==
  /\ main_pc = "start"
  /\ tpc' = [tpc EXCEPT ![main_i] = "entry"]
  /\ IF main_i = 3
     THEN main_pc' = "join" /\ main_i' = 0
     ELSE main_pc' = main_pc /\ main_i' = main_i + 1
  /\ UNCHANGED <<devices, micro_batches, loop_i, ar_s, log, memory, now,
                 timeline>>

\* the join loop without the wait for the thread to end
thread_join_no_wait ==
  /\ main_pc = "join"
  /\ IF main_i = 3
     THEN main_pc' = "timeline" /\ main_i' = 0
     ELSE main_pc' = main_pc /\ main_i' = main_i + 1
  /\ UNCHANGED <<devices, micro_batches, tpc, loop_i, ar_s, log, memory, now,
                 timeline>>

\* run: t.join(), for the threads in order
thread_join ==
  /\ main_pc = "join"
  /\ tpc[main_i] = "finished"
  /\ IF main_i = 3
     THEN main_pc' = "timeline" /\ main_i' = 0
     ELSE main_pc' = main_pc /\ main_i' = main_i + 1
  /\ UNCHANGED <<devices, micro_batches, tpc, loop_i, ar_s, log, memory, now,
                 timeline>>

\* generate_timeline: collect, sort by start, list with normalized time
generate_timeline ==
  /\ main_pc = "timeline"
  /\ timeline' = CHOOSE rows \in
                   {TimelineRows(sorted) :
                      sorted \in {SortByStart(ev) : ev \in {all_events(log)}}} :
                   TRUE
  /\ main_pc' = "done"
  /\ UNCHANGED <<devices, micro_batches, main_i, tpc, loop_i, ar_s, log,
                 memory, now>>

\* the thread of rank r is running and not yet at the end of all_reduce
Running(r) == tpc[r] \in SchedulePcs \cup {"entry", "all_reduce"}

\* device.all_reduce() indented into the loop body of the stage 1 branch:
\* called after every backward of the loop, which then goes on
TargetAllReduceInLoop(r) ==
  IF tpc[r] = "entry" THEN [pc |-> EntryPc(devices[r]), i |-> loop_i[r]]
  ELSE IF tpc[r] = "s1_loop_b" THEN [pc |-> "all_reduce", i |-> loop_i[r]]
  ELSE IF tpc[r] \in SchedulePcs
       THEN NextAt(tpc[r], loop_i[r], micro_batches)
  ELSE IF /\ devices[r].stage = 1
          /\ ar_s[r] + 1 >= all_reduce_steps(devices[r])
          /\ loop_i[r] + 1 < micro_batches
       THEN [pc |-> "s1_loop_f", i |-> loop_i[r] + 1]
       ELSE [pc |-> "all_reduce", i |-> loop_i[r]]

\* the position thread r reaches when it leaves the sleep it is in
Target(r) ==
  IF tpc[r] = "entry" THEN [pc |-> EntryPc(devices[r]), i |-> loop_i[r]]
  ELSE IF tpc[r] \in SchedulePcs
       THEN NextAt(tpc[r], loop_i[r], micro_batches)
       ELSE [pc |-> "all_reduce", i |-> loop_i[r]]

\* the forward/backward call thread r makes next
TargetCall(r) == CallAt(Target(r).pc, Target(r).i, micro_batches)

\* for s in range(steps): the value of s of the step thread r makes next
TargetStep(r) == IF tpc[r] = "all_reduce" THEN ar_s[r] + 1 ELSE 0

\* Device.memory of rank r once the call it is in has returned
MemoryAfterSleep(r) ==
  IF tpc[r] \in SchedulePcs
  THEN IF CallAt(tpc[r], loop_i[r], micro_batches).kind = "Forward"
       THEN forward_memory(memory[r])
       ELSE backward_memory(memory[r])
  ELSE memory[r]

\* forward with the event put at the head of the log: self.log.insert(0, ..)
forward_prepends(r) ==
  /\ Running(r)
  /\ Target(r).pc \in SchedulePcs
  /\ TargetCall(r).kind = "Forward"
  /\ memory' = [memory EXCEPT ![r] = MemoryAfterSleep(r)]
  /\ log' = [log EXCEPT ![r] =
               << Event(devices[r].rank, "Forward", TargetCall(r).mb, now,
                        forward_duration) >> \o @]
  /\ tpc' = [tpc EXCEPT ![r] = Target(r).pc]
  /\ loop_i' = [loop_i EXCEPT ![r] = Target(r).i]
  /\ UNCHANGED <<devices, micro_batches, main_pc, main_i, ar_s, now, timeline>>

\* thread r completes the call it is in and calls Device.forward, which
\* runs up to the sleep of its log_event
forward(r) ==
  /\ Running(r)
  /\ Target(r).pc \in SchedulePcs
  /\ TargetCall(r).kind = "Forward"
  /\ memory' = [memory EXCEPT ![r] = MemoryAfterSleep(r)]
  /\ log' = [log EXCEPT ![r] = Append(@,
               Event(devices[r].rank, "Forward", TargetCall(r).mb, now,
                     forward_duration))]
  /\ tpc' = [tpc EXCEPT ![r] = Target(r).pc]
  /\ loop_i' = [loop_i EXCEPT ![r] = Target(r).i]
  /\ UNCHANGED <<devices, micro_batches, main_pc, main_i, ar_s, now, timeline>>

\* backward working on self.devices[0] instead of self.devices[rank]
backward_on_device_zero(r) ==
  /\ Running(r)
  /\ Target(r).pc \in SchedulePcs
  /\ TargetCall(r).kind = "Backward"
  /\ memory' = [memory EXCEPT ![r] = MemoryAfterSleep(r)]
  /\ log' = [log EXCEPT ![0] = Append(@,
               Event(devices[0].rank, "Backward", TargetCall(r).mb, now,
                     backward_duration))]
  /\ tpc' = [tpc EXCEPT ![r] = Target(r).pc]
  /\ loop_i' = [loop_i EXCEPT ![r] = Target(r).i]
  /\ UNCHANGED <<devices, micro_batches, main_pc, main_i, ar_s, now, timeline>>

\* thread r completes the call it is in and calls Device.backward, which
\* runs up to the sleep of its log_event
backward(r) ==
  /\ Running(r)
  /\ Target(r).pc \in SchedulePcs
  /\ TargetCall(r).kind = "Backward"
  /\ memory' = [memory EXCEPT ![r] = MemoryAfterSleep(r)]
  /\ log' = [log EXCEPT ![r] = Append(@,
               Event(devices[r].rank, "Backward", TargetCall(r).mb, now,
                     backward_duration))]
  /\ tpc' = [tpc EXCEPT ![r] = Target(r).pc]
  /\ loop_i' = [loop_i EXCEPT ![r] = Target(r).i]
  /\ UNCHANGED <<devices, micro_batches, main_pc, main_i, ar_s, now, timeline>>

\* thread r completes the last call of its branch and enters all_reduce, or
\* leaves the sleep of a step; the loop of all_reduce logs the next step
all_reduce_step(r) ==
  /\ Running(r)
  /\ Target(r).pc = "all_reduce"
  /\ TargetStep(r) < all_reduce_steps(devices[r])
  /\ memory' = [memory EXCEPT ![r] = MemoryAfterSleep(r)]
  /\ log' = [log EXCEPT ![r] = Append(@,
               Event(devices[r].rank, "All-Reduce Step", TargetStep(r) + 1,
                     now, step_duration))]
  /\ tpc' = [tpc EXCEPT ![r] = "all_reduce"]
  /\ ar_s' = [ar_s EXCEPT ![r] = TargetStep(r)]
  /\ UNCHANGED <<devices, micro_batches, main_pc, main_i, loop_i, now,
                 timeline>>

\* all_reduce returning only while every member of the group is inside
\* all_reduce: a rendezvous that misses the members that have already left
all_reduce_return_rendezvous(r) ==
  /\ Running(r)
  /\ Target(r).pc = "all_reduce"
  /\ TargetStep(r) >= all_reduce_steps(devices[r])
  /\ \A q \in Ranks :
       devices[q].stage = devices[r].stage => tpc[q] = "all_reduce"
  /\ memory' = [memory EXCEPT ![r] = MemoryAfterSleep(r)]
  /\ tpc' = [tpc EXCEPT ![r] = "finished"]
  /\ UNCHANGED <<devices, micro_batches, main_pc, main_i, loop_i, ar_s, log,
                 now, timeline>>

\* range(steps) is exhausted: all_reduce and run_1f1b_schedule return
all_reduce_return(r) ==
  /\ Running(r)
  /\ Target(r).pc = "all_reduce"
  /\ TargetStep(r) >= all_reduce_steps(devices[r])
  /\ memory' = [memory EXCEPT ![r] = MemoryAfterSleep(r)]
  /\ tpc' = [tpc EXCEPT ![r] = "finished"]
  /\ UNCHANGED <<devices, micro_batches, main_pc, main_i, loop_i, ar_s, log,
                 now, timeline>>

Next ==
  \/ thread_start
  \/ thread_join
  \/ generate_timeline
  \/ \E r \in Ranks : forward(r)
  \/ \E r \in Ranks : backward(r)
  \/ \E r \in Ranks : all_reduce_step(r)
  \/ \E r \in Ranks : all_reduce_return(r)

Spec == Init /\ [][Next]_vars

----------------------------------------------------------------------------
\* The run with the clock.  now is the reading of time.time() in 1/100 s.
\* time.sleep(duration) returns once now >= start + duration.  Threads are
\* scheduled promptly: the clock does not pass the moment a device thread
\* can run.  Only the main thread may be held up, by at most MaxStartDelay
\* ticks, while it creates and starts the threads.
MaxStartDelay == 1

\* the time.sleep thread r is in has lasted its duration (a thread that has
\* not logged anything is not asleep)
SleepOver(r) ==
  \/ tpc[r] = "entry"
  \/ /\ log[r] # << >>
     /\ now >= log[r][Len(log[r])].start + log[r][Len(log[r])].duration

\* the clock advances by 1/100 s
Tick ==
  /\ main_pc \in {"start", "join"}
  /\ main_pc = "start" => now < MaxStartDelay
  /\ main_pc = "join" => \E r \in Ranks : Running(r)
  /\ \A r \in Ranks : Running(r) => ~SleepOver(r)
  /\ now' = now + 1
  /\ UNCHANGED <<devices, micro_batches, main_pc, main_i, tpc, loop_i, ar_s,
                 log, memory, timeline>>

NextTimed ==
  \/ Tick
  \/ thread_start
  \/ thread_join
  \/ generate_timeline
  \/ \E r \in Ranks : SleepOver(r) /\ forward(r)
  \/ \E r \in Ranks : SleepOver(r) /\ backward(r)
  \/ \E r \in Ranks : SleepOver(r) /\ all_reduce_step(r)
  \/ \E r \in Ranks : SleepOver(r) /\ all_reduce_return(r)

SpecTimed == Init /\ [][NextTimed]_vars

----------------------------------------------------------------------------
\* The trainer with fewer micro-batches than pipeline stages:
\* trainer.micro_batches set below the pipeline depth 2 before run
DegenerateMicroBatches == {m \in 1 .. MicroBatches : m < 2}

InitDegenerate ==
  /\ devices = TrainerDevices
  /\ micro_batches \in DegenerateMicroBatches
  /\ main_pc = "start"
  /\ main_i = 0
  /\ tpc = [r \in Ranks |-> "unstarted"]
  /\ loop_i = [r \in Ranks |-> 0]
  /\ ar_s = [r \in Ranks |-> 0]
  /\ log = [r \in Ranks |-> << >>]
  /\ memory = [r \in Ranks |-> 0]
  /\ now = 0
  /\ timeline = << >>

SpecDegenerate == InitDegenerate /\ [][Next]_vars

\* a step of the thread of rank r
ThreadStep(r) ==
  forward(r) \/ backward(r) \/ all_reduce_step(r) \/ all_reduce_return(r)

\* The scheduler does not stop the program: while some thread, the main
\* thread included, can take a step, a step is taken
SpecFair == Init /\ [][Next]_vars /\ WF_vars(Next)

----------------------------------------------------------------------------
\* Device takes any world_size and pipeline_depth: the grids of four devices
\* with pipeline_depth a divisor of world_size = 4, rank r on stage
\* r mod pipeline_depth
PipelineDepths == {1, 2, 4}

GridDevices(pd) == [r \in Ranks |-> Device(r, r % pd, 4, pd)]

InitTopology ==
  /\ \E pd \in PipelineDepths : devices = GridDevices(pd)
  /\ micro_batches = MicroBatches
  /\ main_pc = "start"
  /\ main_i = 0
  /\ tpc = [r \in Ranks |-> "unstarted"]
  /\ loop_i = [r \in Ranks |-> 0]
  /\ ar_s = [r \in Ranks |-> 0]
  /\ log = [r \in Ranks |-> << >>]
  /\ memory = [r \in Ranks |-> 0]
  /\ now = 0
  /\ timeline = << >>

SpecTopology == InitTopology /\ [][Next]_vars

----------------------------------------------------------------------------
\* generate_timeline as a function of the logs: the state of run after the
\* joins, with logs of at most MaxLogLen events whose start times are the
\* clock readings 0..MaxStart, non-decreasing along each log
MaxLogLen == 2

MaxStart == 2

NonDecreasing(f, n) == \A k \in 1 .. n - 1 : f[k] <= f[k + 1]

\* ranks 0 and 1 log up to MaxLogLen events, ranks 2 and 3 up to one
LogLenOf(r) == IF r < 2 THEN MaxLogLen ELSE 1

LogsOf(r) ==
  UNION {
    { [k \in 1 .. n |-> Event(r, "Forward", k - 1, st[k], forward_duration)] :
        st \in {f \in [1 .. n -> 0 .. MaxStart] : NonDecreasing(f, n)} } :
    n \in 0 .. LogLenOf(r) }

InitTimeline ==
  /\ devices = TrainerDevices
  /\ micro_batches = MicroBatches
  /\ main_pc = "timeline"
  /\ main_i = 0
  /\ tpc = [r \in Ranks |-> "finished"]
  /\ loop_i = [r \in Ranks |-> MicroBatches - 1]
  /\ ar_s = [r \in Ranks |-> 1]
  /\ \E l0 \in LogsOf(0), l1 \in LogsOf(1), l2 \in LogsOf(2), l3 \in LogsOf(3) :
       log = [r \in Ranks |-> CASE r = 0 -> l0 [] r = 1 -> l1
                                 [] r = 2 -> l2 [] r = 3 -> l3]
  /\ memory = [r \in Ranks |-> 0]
  /\ now = MaxStart
  /\ timeline = << >>

NextTimeline == generate_timeline

SpecTimeline == InitTimeline /\ [][NextTimeline]_vars

TypeOK ==
  /\ main_pc \in {"start", "join", "timeline", "done"}
  /\ \A r \in Ranks :
       tpc[r] \in SchedulePcs \cup {"unstarted", "entry", "all_reduce", "finished"}

----------------------------------------------------------------------------
\* Vocabulary of the properties

\* the forward/backward events of a log, as instructions, in log order
InstrOf(e) == [kind |-> e.kind, mb |-> e.id]

IsInstr(e) == e.kind \in {"Forward", "Backward"}

Executed(r) ==
  LET s == SelectSeq(log[r], IsInstr)
  IN [k \in 1 .. Len(s) |-> InstrOf(s[k])]

\* how often the instruction (kind, i) was issued by rank r
Issued(r, kind, i) ==
  Cardinality({k \in 1 .. Len(log[r]) :
                 log[r][k].kind = kind /\ log[r][k].id = i})

\* the number of events of rank r whose operation has completed: a running
\* thread is inside the log_event of the last event of its log
CompletedCount(r) ==
  IF tpc[r] = "finished" THEN Len(log[r])
  ELSE IF Len(log[r]) = 0 THEN 0 ELSE Len(log[r]) - 1

HasCompleted(r, kind, i) ==
  \E k \in 1 .. CompletedCount(r) :
    log[r][k].kind = kind /\ log[r][k].id = i

\* thread r has completed every forward/backward and is in or past all_reduce
PastSchedule(r) == tpc[r] \in {"all_reduce", "finished"}

\* Pipeline: 0->1 and 2->3
StageZeroOf(r) == r - 1

LastStageRanks == {r \in Ranks : devices[r].stage = 1}

FirstStageRanks == {r \in Ranks : devices[r].stage = 0}

\* Data Parallel Groups: {0, 2} and {1, 3}
Group(r) == {q \in Ranks : devices[q].stage = devices[r].stage}

\* size of the data-parallel group of a device
GroupSize(d) == d.world_size \div d.pipeline_depth

----------------------------------------------------------------------------
\* C1: every device thread that has run its schedule has issued exactly
\* micro_batches forwards and micro_batches backwards, each micro-batch id
\* of 0..micro_batches-1 forwarded once and backwarded once.
C1_OncePerMicroBatch ==
  \A r \in Ranks :
    PastSchedule(r) =>
      /\ Len(Executed(r)) = 2 * micro_batches
      /\ \A i \in 0 .. micro_batches - 1 :
           Issued(r, "Forward", i) = 1 /\ Issued(r, "Backward", i) = 1

\* C2: a stage 1 device has started Forward(i) only if the stage 0 device of
\* its pipeline has completed Forward(i).
C2_ForwardAfterUpstream ==
  \A r \in LastStageRanks : \A k \in 1 .. Len(log[r]) :
    log[r][k].kind = "Forward" =>
      HasCompleted(StageZeroOf(r), "Forward", log[r][k].id)

\* C3: a stage 0 device has started Backward(i) only if the stage 1 device
\* of its pipeline has completed Backward(i).
C3_BackwardAfterDownstream ==
  \A r \in LastStageRanks : \A k \in 1 .. Len(log[StageZeroOf(r)]) :
    log[StageZeroOf(r)][k].kind = "Backward" =>
      HasCompleted(r, "Backward", log[StageZeroOf(r)][k].id)

\* C4: a device has logged an all-reduce step only if every member of its
\* data-parallel group has completed its schedule and entered all_reduce.
C4_EntryBarrier ==
  \A r \in Ranks :
    (\E k \in 1 .. Len(log[r]) : log[r][k].kind = "All-Reduce Step") =>
      \A q \in Group(r) : PastSchedule(q)

\* C5: a device whose thread has finished has logged exactly 2*(N-1)
\* all-reduce steps, N the size of its data-parallel group.
C5_StepCount ==
  \A r \in Ranks :
    tpc[r] = "finished" =>
      Cardinality({k \in 1 .. Len(log[r]) :
                     log[r][k].kind = "All-Reduce Step"})
        = 2 * (GroupSize(devices[r]) - 1)

\* C6: in every log, every Backward(i) event has a Forward(i) event of the
\* same device before it.
C6_BackwardAfterForward ==
  \A r \in Ranks : \A k \in 1 .. Len(log[r]) :
    log[r][k].kind = "Backward" =>
      \E j \in 1 .. k - 1 :
        log[r][j].kind = "Forward" /\ log[r][j].id = log[r][k].id

\* a device has issued the backward of the last micro-batch, and one has
\* issued Backward(1) twice
C6_Witness ==
  /\ \E r \in Ranks : Issued(r, "Backward", micro_batches - 1) = 1
  /\ \E r \in Ranks : Issued(r, "Backward", 1) = 2

\* C7: once the last backward of a device has completed, during all_reduce
\* and until the run ends, the memory of the device is 0.
C7_MemoryZero ==
  \A r \in Ranks : PastSchedule(r) => memory[r] = 0

\* the run has ended, a stage 0 device went through all its forwards
C7_Witness ==
  /\ main_pc = "done"
  /\ \A r \in Ranks : memory[r] = 0 /\ Len(Executed(r)) >= 2 * micro_batches
  /\ \E r \in Ranks : Issued(r, "Forward", 2) = 2

\* the canonical 1F1B sequence of stage 0 for pipeline depth 2
RECURSIVE SteadyPairs(_, _)
SteadyPairs(k, M) ==
  IF k > M - 1 THEN << >>
  ELSE << F(k), B(k - 1) >> \o SteadyPairs(k + 1, M)

Canonical1F1B(M) == << F(0) >> \o SteadyPairs(1, M) \o << B(M - 1) >>

\* C8: the instructions executed by a stage 0 device are Forward(0), then
\* Forward(k), Backward(k-1) for k = 1..M-1, then Backward(M-1).
C8_StageZeroCanonical ==
  \A r \in FirstStageRanks :
    PastSchedule(r) => Executed(r) = Canonical1F1B(micro_batches)

\* Forward(k), Backward(k) for k = from .. M-1
RECURSIVE BackToBack(_, _)
BackToBack(k, M) ==
  IF k > M - 1 THEN << >>
  ELSE << F(k), B(k) >> \o BackToBack(k + 1, M)

\* C9: the instructions executed by a stage 1 device are Forward(0),
\* Backward(0), ..., Forward(M-1), Backward(M-1): at every moment a prefix
\* of that sequence, and all of it once the schedule is completed.
C9_StageOneBackToBack ==
  \A r \in LastStageRanks :
    /\ Len(Executed(r)) <= 2 * micro_batches
    /\ Executed(r) = SubSeq(BackToBack(0, micro_batches), 1, Len(Executed(r)))
    /\ PastSchedule(r) => Len(Executed(r)) = 2 * micro_batches

\* both stage 1 devices have completed their 8 pairs
C9_Witness ==
  /\ micro_batches = 8
  /\ \A r \in LastStageRanks :
       tpc[r] = "finished" /\ Len(Executed(r)) = 16
\* the sum of the lengths of the logs of ranks r..3
RECURSIVE TotalLen(_)
TotalLen(r) == IF r > 3 THEN 0 ELSE Len(log[r]) + TotalLen(r + 1)

\* C10: the timeline holds one entry per logged event, in ascending order
\* of start time, and of two entries with the same start time the one of
\* the lower rank comes first.
C10_OrderedByStartThenRank ==
  main_pc = "done" =>
    /\ Len(timeline) = TotalLen(0)
    /\ \A i \in 1 .. Len(timeline) : \A j \in i + 1 .. Len(timeline) :
         /\ timeline[i].start <= timeline[j].start
         /\ timeline[i].start = timeline[j].start =>
              timeline[i].rank <= timeline[j].rank

\* a timeline was built from logs in which two ranks have events of equal
\* start time and a higher rank has an event earlier than one of a lower rank
C10_Witness ==
  /\ main_pc = "done"
  /\ \E i, j \in 1 .. Len(timeline) :
       /\ i < j
       /\ timeline[i].start = timeline[j].start
       /\ timeline[i].rank < timeline[j].rank
  /\ \E i, j \in 1 .. Len(timeline) :
       /\ i < j
       /\ timeline[i].start < timeline[j].start
       /\ timeline[i].rank > timeline[j].rank
\* the start times of all events of all logs
AllStarts ==
  UNION {{log[r][k].start : k \in 1 .. Len(log[r])} : r \in Ranks}

IsMinStart(t) == t \in AllStarts /\ \A u \in AllStarts : t <= u

\* C11: in a non-empty timeline the first line has relative time 0 and the
\* minimum start time of all logged events, and the relative time of every
\* line is its start minus that minimum, hence not negative.
C11_NormalizedTime ==
  (main_pc = "done" /\ timeline # << >>) =>
    /\ timeline[1].t_rel = 0
    /\ IsMinStart(timeline[1].start)
    /\ \A k \in 1 .. Len(timeline) :
         /\ IsMinStart(timeline[k].start - timeline[k].t_rel)
         /\ timeline[k].t_rel >= 0

\* a timeline whose earliest event starts after time 0 and is not the first
\* collected one, with a line of positive relative time
C11_Witness ==
  /\ main_pc = "done" /\ timeline # << >>
  /\ timeline[1].start > 0
  /\ timeline[1].rank > 0
  /\ log[0] # << >>
  /\ \E k \in 1 .. Len(timeline) : timeline[k].t_rel > 0
\* the forward/backward calls of a device in program order, from position
\* pc with loop variable i on
RECURSIVE ProgramFrom(_, _, _)
ProgramFrom(pc, i, M) ==
  IF pc \notin SchedulePcs THEN << >>
  ELSE << CallAt(pc, i, M) >>
       \o ProgramFrom(NextAt(pc, i, M).pc, NextAt(pc, i, M).i, M)

\* the events a device issues, in order: its calls, then the steps 1..steps
IssueOrder(d, M) ==
  LET p == ProgramFrom(EntryPc(d), 0, M)
  IN [k \in 1 .. Len(p) |-> [kind |-> p[k].kind, id |-> p[k].mb]]
     \o [s \in 1 .. all_reduce_steps(d) |->
           [kind |-> "All-Reduce Step", id |-> s]]

\* C12: every log lists the events in the order the device issued them,
\* and the start times are non-decreasing along the log.
C12_LogInIssueOrder ==
  \A r \in Ranks :
    LET io == IssueOrder(devices[r], micro_batches)
    IN /\ Len(log[r]) <= Len(io)
       /\ \A k \in 1 .. Len(log[r]) :
            /\ log[r][k].kind = io[k].kind
            /\ log[r][k].id = io[k].id
            /\ k > 1 => log[r][k - 1].start <= log[r][k].start

\* a finished device whose log runs over distinct start times, while another
\* device has logged at other times
C12_Witness ==
  \E r, q \in Ranks :
    /\ r # q
    /\ tpc[r] = "finished"
    /\ log[r][1].start < log[r][Len(log[r])].start
    /\ log[q] # << >>
    /\ log[q][1].start # log[r][1].start
\* C13: run has started all four threads before it joins, and it reaches
\* generate_timeline only when every thread has returned from all_reduce;
\* the timeline has a line for every event of the logs.
C13_TimelineAfterJoin ==
  /\ main_pc # "start" => \A r \in Ranks : tpc[r] # "unstarted"
  /\ main_pc \in {"timeline", "done"} => \A r \in Ranks : tpc[r] = "finished"
  /\ main_pc = "done" => Len(timeline) = TotalLen(0)

\* the timeline was built, from the complete logs of the four devices
C13_Witness ==
  /\ main_pc = "done"
  /\ \A r \in Ranks : Len(log[r]) = Len(IssueOrder(devices[r], micro_batches))
  /\ Len(timeline) = TotalLen(0) /\ Len(timeline) > 0

\* C14: in every log, an all-reduce step is followed by all-reduce steps
\* only.
C14_AllReduceLast ==
  \A r \in Ranks : \A k \in 1 .. Len(log[r]) :
    log[r][k].kind = "All-Reduce Step" =>
      \A j \in k + 1 .. Len(log[r]) : log[r][j].kind = "All-Reduce Step"

\* a device has logged its forwards and backwards and then both steps
C14_Witness ==
  \E r \in Ranks :
    /\ Len(log[r]) > 2
    /\ log[r][1].kind = "Forward"
    /\ log[r][Len(log[r]) - 2].kind = "Backward"
    /\ log[r][Len(log[r]) - 1].kind = "All-Reduce Step"
    /\ log[r][Len(log[r])].kind = "All-Reduce Step"

\* C19: the memory of a device is never negative and never above
\* 10 * (pipeline_depth - stage).
C19_MemoryBounds ==
  \A r \in Ranks :
    /\ 0 <= memory[r]
    /\ memory[r] <= activation_memory
                      * (devices[r].pipeline_depth - devices[r].stage)

\* a stage 0 device holds two activations while a stage 1 device holds one
C19_Witness ==
  \E r, q \in Ranks :
    /\ devices[r].stage = 0 /\ memory[r] = 2 * activation_memory
    /\ devices[q].stage = 1 /\ memory[q] = activation_memory
\* C15: with micro_batches below the pipeline depth, a device that has run
\* its schedule has executed 2 * micro_batches instructions, one Forward and
\* one Backward per micro-batch id of 0..micro_batches-1, every Backward(i)
\* behind its Forward(i).
C15_DegenerateSchedule ==
  \A r \in Ranks :
    (micro_batches < devices[r].pipeline_depth /\ PastSchedule(r)) =>
      /\ Len(Executed(r)) = 2 * micro_batches
      /\ \A k \in 1 .. Len(Executed(r)) :
           Executed(r)[k].mb \in 0 .. micro_batches - 1
      /\ \A i \in 0 .. micro_batches - 1 :
           /\ Issued(r, "Forward", i) = 1
           /\ Issued(r, "Backward", i) = 1
      /\ \A k \in 1 .. Len(Executed(r)) :
           Executed(r)[k].kind = "Backward" =>
             \E j \in 1 .. k - 1 :
               Executed(r)[j] = F(Executed(r)[k].mb)

\* the sum of the durations of the events in front of position k of a log
RECURSIVE DurationBefore(_, _)
DurationBefore(l, k) ==
  IF k <= 1 THEN 0 ELSE l[k - 1].duration + DurationBefore(l, k - 1)

\* C16: the normalized timeline of a complete run is a function of the
\* configuration and the fixed durations.  The run in which no thread is
\* delayed is one of the runs, so this says that every complete run gives
\* the timeline of that run: the relative start of the k-th event of a
\* device is the sum of the durations of its earlier events.
C16_Deterministic ==
  main_pc = "done" =>
    \A n \in 1 .. Len(timeline) :
      \E k \in 1 .. Len(log[timeline[n].rank]) :
        /\ log[timeline[n].rank][k].kind = timeline[n].kind
        /\ log[timeline[n].rank][k].start = timeline[n].start
        /\ timeline[n].t_rel = DurationBefore(log[timeline[n].rank], k)

\* C17: a step of the thread of rank r leaves the log and the memory of
\* every other device unchanged, and every event of a log carries the rank
\* of the device that owns the log.
C17_OwnDeviceOnly ==
  [][ /\ \A r \in Ranks :
           ThreadStep(r) =>
             \A q \in Ranks \ {r} :
               log'[q] = log[q] /\ memory'[q] = memory[q]
      /\ \A q \in Ranks : \A k \in 1 .. Len(log'[q]) : log'[q][k].rank = q
    ]_vars

\* two threads have written: both a stage 0 and a stage 1 device have a
\* backward in their log and hold memory
C17_Witness ==
  \E r, q \in Ranks :
    /\ r # q
    /\ Issued(r, "Backward", 0) = 1 /\ memory[r] > 0
    /\ Issued(q, "Backward", 0) = 1 /\ memory[q] > 0

\* C18: under fair scheduling every run ends: all four threads finish, the
\* joins return and the timeline is generated.
C18_Terminates ==
  <>(main_pc = "done" /\ \A r \in Ranks : tpc[r] = "finished")

\* the run has ended with the timeline of all 76 events
C18_Witness ==
  /\ main_pc = "done"
  /\ \A r \in Ranks : tpc[r] = "finished"
  /\ Len(timeline) = 76

\* the lines of the timeline that belong to rank r, as logged events
RowsOf(r) ==
  LET IsOf(e) == e.rank = r
      rows == SelectSeq(timeline, IsOf)
  IN [k \in 1 .. Len(rows) |->
        Event(rows[k].rank, rows[k].kind, rows[k].id, rows[k].start,
              rows[k].duration)]

\* C20: the timeline is a permutation of the events of all logs: its lines
\* of rank r are exactly the events of the log of r, in the order of the
\* log, and it has no other lines.
C20_Permutation ==
  main_pc = "done" =>
    /\ \A r \in Ranks : RowsOf(r) = log[r]
    /\ \A n \in 1 .. Len(timeline) : timeline[n].rank \in Ranks
    /\ Len(timeline) = TotalLen(0)

\* a timeline in which the events of the ranks are interleaved, built from
\* a log with two events of the same start time
C20_Witness ==
  /\ main_pc = "done"
  /\ \E r \in Ranks :
       Len(log[r]) >= 2 /\ log[r][1].start = log[r][2].start
  /\ \E n \in 1 .. Len(timeline) - 2 :
       /\ timeline[n].rank = timeline[n + 2].rank
       /\ timeline[n].rank # timeline[n + 1].rank
====
